---- MODULE Spec2Model ----
(***************************************************************************)
(* FiberSequencer (src/sequencing_logic.py): scenario adjustment of a      *)
(* segment table, the two orderings, the single-crew packer and the        *)
(* cumulative / milestone aggregation.                                     *)
(*                                                                         *)
(* Dates are whole days (integers).  Miles and Segment_Cost are integers.  *)
(* EstRate and production_multiplier are exact rationals [num, den] with   *)
(* den > 0, so "rate * multiplier" and "ceil(Miles / EstRate)" are         *)
(* computed exactly; binary floating-point rounding is not represented.    *)
(* A DataFrame is the sequence of its rows; an exception raised by a call  *)
(* is recorded in err.                                                     *)
(***************************************************************************)
EXTENDS Integers, Sequences, FiniteSets, TLC

\* ---------------------------------------------------------------- bounds
MaxSeg == 2          \* rows in the constructor's DataFrame: 0..MaxSeg
MaxStart == 2        \* Start_Date in 0..MaxStart
MaxDur == 2          \* Duration of an input row in 1..MaxDur
MaxMiles == 2        \* Miles in 1..MaxMiles
MaxCost == 1         \* Segment_Cost in 0..MaxCost
MaxRate == 2         \* EstRate in 1..MaxRate miles per day
MaxOffset == 1       \* start_date_offset in -MaxOffset..MaxOffset
MaxMultNum == 2      \* production_multiplier numerators -1..MaxMultNum
MaxMultDen == 1      \* production_multiplier denominators 1..MaxMultDen
MaxCeil == 0         \* cost_threshold None or in 0..MaxCeil
MaxCalls == 2        \* calls made on one sequencer

\* ---------------------------------------------------------------- values
NoThreshold == <<>>          \* cost_threshold = None; a ceiling c is <<c>>

Rational(n, d) == [num |-> n, den |-> d]

Offsets == (0 - MaxOffset)..MaxOffset
Multipliers == {Rational(n, d) : n \in (0 - 1)..MaxMultNum, d \in 1..MaxMultDen}
Thresholds == {NoThreshold} \cup {<<c>> : c \in 0..MaxCeil}

Max(a, b) == IF a >= b THEN a ELSE b

\* ceil(a / b) for integers a, b with b # 0
CeilDiv(a, b) ==
  LET n == IF b > 0 THEN a ELSE 0 - a
      d == IF b > 0 THEN b ELSE 0 - b
  IN  0 - ((0 - n) \div d)

\* One row of the input table; Segment_Name is the row's position in the input.
Row(name, start, dur, rate, cost, miles) ==
  [Segment_Name |-> name, Start_Date |-> start, Duration |-> dur,
   EstRate |-> Rational(rate, 1), Segment_Cost |-> cost, Miles |-> miles]

Fields ==
  [Start_Date : 0..MaxStart, Duration : 1..MaxDur, EstRate : 1..MaxRate,
   Segment_Cost : 0..MaxCost, Miles : 1..MaxMiles]

\* Every table of 0..MaxSeg rows over the field domains.
Inputs ==
  UNION {{[i \in 1..n |-> Row(i, f[i].Start_Date, f[i].Duration, f[i].EstRate,
                              f[i].Segment_Cost, f[i].Miles)] :
            f \in [1..n -> Fields]} : n \in 0..MaxSeg}

RECURSIVE SumOf(_, _, _)
\* sum of column col over rows 1..k of df
SumOf(df, col, k) == IF k = 0 THEN 0 ELSE SumOf(df, col, k - 1) + df[k][col]

\* ---------------------------------------------------------------- state
VARIABLES
  input,               \* the DataFrame handed to the constructor
  original_data,       \* self.original_data
  data,                \* self.data, the working set
  start_date_method,   \* the caller's last result of sequence_by_start_date
  lowest_cost_method,  \* the caller's last result of sequence_by_lowest_cost
  last,                \* the name of the last call
  params,              \* the arguments of the last apply_parameters call
  replaced_adjusted,   \* history: the last apply_parameters call replaced a
                       \* working set that differed from original_data
  err,                 \* the exception the last call raised, or "none"
  report,              \* the dict the last comparison / analysis call returned
  calls                \* calls made so far

vars == <<input, original_data, data, start_date_method, lowest_cost_method,
          last, params, replaced_adjusted, err, report, calls>>

\* the caller holds no schedule yet
NoSchedule == [rows |-> <<>>, ms |-> <<>>, sequenced |-> <<>>]

\* lines 19-21: the default arguments of apply_parameters
Defaults ==
  [start_date_offset |-> 0, production_multiplier |-> Rational(1, 1),
   cost_threshold |-> NoThreshold]

\* FiberSequencer.__init__
Init ==
  /\ input \in Inputs
  /\ original_data = input
  /\ data = input
  /\ start_date_method = NoSchedule
  /\ lowest_cost_method = NoSchedule
  /\ last = "__init__"
  /\ params = Defaults
  /\ replaced_adjusted = FALSE
  /\ err = "none"
  /\ report = <<>>
  /\ calls = 0

\* ------------------------------------------------- apply_parameters
\* WorkingCopy continuing from the current working set
WorkingCopyOfCurrent(original, current) == current

\* line 30: the working set restarts from a copy of original_data
WorkingCopy(original, current) == original

\* lines 33-34: Start_Date + timedelta(days=start_date_offset)
OffsetStartDates(df, start_date_offset) ==
  IF start_date_offset # 0
  THEN [i \in 1..Len(df) |->
          [df[i] EXCEPT !.Start_Date = @ + start_date_offset]]
  ELSE df

\* line 38: EstRate * production_multiplier
MultiplyRates(df, production_multiplier) ==
  [i \in 1..Len(df) |->
     [df[i] EXCEPT !.EstRate = Rational(@.num * production_multiplier.num,
                                        @.den * production_multiplier.den)]]

\* line 40: Miles / EstRate is inf when EstRate is 0 and astype(int) raises
NonFinite(df) == \E i \in 1..Len(df) : df[i].EstRate.num = 0

\* line 40: np.ceil(Miles / EstRate).astype(int), for a finite quotient
RecalcDuration(row) == CeilDiv(row.Miles * row.EstRate.den, row.EstRate.num)

RecalcDurations(df) ==
  [i \in 1..Len(df) |-> [df[i] EXCEPT !.Duration = RecalcDuration(df[i])]]

\* line 44: the rows with Segment_Cost <= cost_threshold, in their order
CostFilter(df, cost_threshold) ==
  IF cost_threshold = NoThreshold
  THEN df
  ELSE SelectSeq(df, LAMBDA r : r.Segment_Cost <= cost_threshold[1])

\* self.data after apply_parameters returned or raised, and the exception
AppliedTo(original, current, o, m, c) ==
  LET d1 == OffsetStartDates(WorkingCopy(original, current), o)
      d2 == MultiplyRates(d1, m)
  IN  IF m.num = m.den
      THEN [data |-> CostFilter(d1, c), err |-> "none"]
      ELSE IF NonFinite(d2)
           THEN [data |-> d2, err |-> "ValueError"]
           ELSE [data |-> CostFilter(RecalcDurations(d2), c), err |-> "none"]

apply_parameters(start_date_offset, production_multiplier, cost_threshold) ==
  /\ calls < MaxCalls
  /\ LET r == AppliedTo(original_data, data, start_date_offset,
                        production_multiplier, cost_threshold)
     IN  /\ data' = r.data
         /\ err' = r.err
  /\ last' = "apply_parameters"
  /\ params' = [start_date_offset |-> start_date_offset,
                production_multiplier |-> production_multiplier,
                cost_threshold |-> cost_threshold]
  /\ replaced_adjusted' = (data # original_data)
  /\ calls' = calls + 1
  /\ UNCHANGED <<input, original_data, start_date_method, lowest_cost_method,
               report>>

\* ------------------------------------------------- sort_values
Perms(n) == {p \in [1..n -> 1..n] : \A i, j \in 1..n : p[i] = p[j] => i = j}

\* SortValues in descending order of col
SortValuesDescending(df, col) ==
  {[i \in 1..Len(df) |-> df[p[i]]] :
     p \in {q \in Perms(Len(df)) :
              \A i \in 1..(Len(df) - 1) : df[q[i]][col] >= df[q[i + 1]][col]}}

\* DataFrame.sort_values(col) with the default kind="quicksort", which is not
\* stable: any arrangement of the rows in ascending order of col.
SortValues(df, col) ==
  {[i \in 1..Len(df) |-> df[p[i]]] :
     p \in {q \in Perms(Len(df)) :
              \A i \in 1..(Len(df) - 1) : df[q[i]][col] <= df[q[i + 1]][col]}}

\* ------------------------------------------------- _calculate_schedule
\* MinStart starting the cursor at day 0 whatever the planned starts are
MinStartDayZero(df, k) == 0

RECURSIVE MinStart(_, _)
\* line 79: result['Start_Date'].min() over rows 1..k, k >= 1
MinStart(df, k) ==
  IF k = 1 THEN df[1].Start_Date
  ELSE LET m == MinStart(df, k - 1)
       IN  IF df[k].Start_Date < m THEN df[k].Start_Date ELSE m

\* ActualStart without the planned-start floor
ActualStartCursorOnly(row, current_date) == current_date

\* line 85: the later of the planned start and the cursor
ActualStart(row, current_date) == Max(row.Start_Date, current_date)

\* line 89
EndDate(actual_start, row) == actual_start + row.Duration

\* NextDate leaving the cursor at the segment's start
NextDateStale(actual_start, end_date) == actual_start

\* line 93: the cursor for the next segment
NextDate(actual_start, end_date) == end_date

RECURSIVE Packed(_, _, _)
\* lines 83-96: the loop over rows 1..k, carrying current_date
Packed(df, k, current_date) ==
  IF k = 0
  THEN [rows |-> <<>>, current_date |-> current_date]
  ELSE LET acc == Packed(df, k - 1, current_date)
           actual_start == ActualStart(df[k], acc.current_date)
           end_date == EndDate(actual_start, df[k])
       IN  [rows |-> Append(acc.rows,
                [Segment_Name |-> df[k].Segment_Name,
                 Start_Date |-> df[k].Start_Date,
                 Duration |-> df[k].Duration,
                 EstRate |-> df[k].EstRate,
                 Segment_Cost |-> df[k].Segment_Cost,
                 Miles |-> df[k].Miles,
                 Actual_Start |-> actual_start,
                 Actual_End |-> end_date]),
            current_date |-> NextDate(actual_start, end_date)]

\* ------------------------------------------------- _calculate_cumulative_metrics
\* line 125, in percent
Milestones == {50, 75, 100}

\* WithCumulative summing only the rows before each row
WithCumulativeExclusive(df) ==
  [i \in 1..Len(df) |->
     [Segment_Name |-> df[i].Segment_Name,
      Start_Date |-> df[i].Start_Date,
      Duration |-> df[i].Duration,
      EstRate |-> df[i].EstRate,
      Segment_Cost |-> df[i].Segment_Cost,
      Miles |-> df[i].Miles,
      Actual_Start |-> df[i].Actual_Start,
      Actual_End |-> df[i].Actual_End,
      Cumulative_Miles |-> SumOf(df, "Miles", i - 1),
      Cumulative_Cost |-> SumOf(df, "Segment_Cost", i - 1)]]

\* lines 119-120: cumsum of Miles and Segment_Cost
WithCumulative(df) ==
  [i \in 1..Len(df) |->
     [Segment_Name |-> df[i].Segment_Name,
      Start_Date |-> df[i].Start_Date,
      Duration |-> df[i].Duration,
      EstRate |-> df[i].EstRate,
      Segment_Cost |-> df[i].Segment_Cost,
      Miles |-> df[i].Miles,
      Actual_Start |-> df[i].Actual_Start,
      Actual_End |-> df[i].Actual_End,
      Cumulative_Miles |-> SumOf(df, "Miles", i),
      Cumulative_Cost |-> SumOf(df, "Segment_Cost", i)]]

\* line 129: Cumulative_Miles >= total_miles * milestone
Reached(row, total_miles, milestone) ==
  row.Cumulative_Miles * 100 >= total_miles * milestone

\* MilestoneIdx taking the last True of the boolean column
MilestoneIdxLast(df, total_miles, milestone) ==
  LET hits == {i \in 1..Len(df) : Reached(df[i], total_miles, milestone)}
  IN  IF hits = {} THEN 0
      ELSE (CHOOSE i \in hits : \A j \in hits : i >= j) - 1

\* line 129: idxmax of the boolean column: the 0-based label of its first
\* True, and of its first entry when no entry is True
MilestoneIdx(df, total_miles, milestone) ==
  LET hits == {i \in 1..Len(df) : Reached(df[i], total_miles, milestone)}
  IN  IF hits = {} THEN 0
      ELSE (CHOOSE i \in hits : \A j \in hits : i <= j) - 1

Absent == [present |-> FALSE, Day |-> 0, Cost |-> 0]

\* lines 131-137: the f'{milestone}%_Day' and f'{milestone}%_Cost' columns
Milestone(df, total_miles, milestone) ==
  LET milestone_idx == MilestoneIdx(df, total_miles, milestone)
  IN  IF milestone_idx < Len(df)
      THEN [present |-> TRUE,
            Day |-> df[milestone_idx + 1].Actual_End,
            Cost |-> df[milestone_idx + 1].Cumulative_Cost]
      ELSE Absent

\* lines 113-139 for a non-empty frame: every result the re-sort by
\* Actual_Start allows
CumulativeMetrics(packed) ==
  {LET df == WithCumulative(sorted)
       total_miles == SumOf(df, "Miles", Len(df))
   IN  [rows |-> df,
        ms |-> [m \in Milestones |-> Milestone(df, total_miles, m)]] :
     sorted \in SortValues(packed, "Actual_Start")}

\* lines 76-101 for a non-empty frame: the schedules _calculate_schedule
\* can return; sequenced records the order the loop packed the segments in
CalculateSchedule(sequenced_data) ==
  LET current_date == MinStart(sequenced_data, Len(sequenced_data))
      packed == Packed(sequenced_data, Len(sequenced_data), current_date).rows
  IN  {[rows |-> r.rows, ms |-> r.ms,
        sequenced |-> [i \in 1..Len(sequenced_data) |->
                         sequenced_data[i].Segment_Name]] :
         r \in CumulativeMetrics(packed)}

\* line 129 on an empty frame: idxmax raises ValueError
RaisesOnEmpty(df) == Len(df) = 0

\* ------------------------------------------------- sequence_by_*
sequence_by_start_date ==
  /\ calls < MaxCalls
  /\ IF RaisesOnEmpty(data)
     THEN /\ err' = "ValueError"
          /\ UNCHANGED start_date_method
     ELSE /\ \E sequenced \in SortValues(data, "Start_Date") :
               start_date_method' \in CalculateSchedule(sequenced)
          /\ err' = "none"
  /\ last' = "sequence_by_start_date"
  /\ calls' = calls + 1
  /\ UNCHANGED <<input, original_data, data, lowest_cost_method, params,
               replaced_adjusted, report>>

\* sequence_by_lowest_cost sorting the working set in place
sequence_by_lowest_cost_inplace ==
  /\ calls < MaxCalls
  /\ IF RaisesOnEmpty(data)
     THEN /\ err' = "ValueError"
          /\ UNCHANGED <<data, lowest_cost_method>>
     ELSE /\ data' \in SortValues(data, "Segment_Cost")
          /\ lowest_cost_method' \in CalculateSchedule(data')
          /\ err' = "none"
  /\ last' = "sequence_by_lowest_cost"
  /\ calls' = calls + 1
  /\ UNCHANGED <<input, original_data, start_date_method, params,
               replaced_adjusted, report>>

\* lines 56-64
sequence_by_lowest_cost ==
  /\ calls < MaxCalls
  /\ IF RaisesOnEmpty(data)
     THEN /\ err' = "ValueError"
          /\ UNCHANGED lowest_cost_method
     ELSE /\ \E sequenced \in SortValues(data, "Segment_Cost") :
               lowest_cost_method' \in CalculateSchedule(sequenced)
          /\ err' = "none"
  /\ last' = "sequence_by_lowest_cost"
  /\ calls' = calls + 1
  /\ UNCHANGED <<input, original_data, data, start_date_method, params,
               replaced_adjusted, report>>

\* ------------------------------------------------- get_milestone_comparison
\* Python's None is <<>>; a value v is <<v>>
None == <<>>

\* lines 157-158: df[f'{milestone}%_Day'].iloc[0]
MilestoneDay(s, milestone) ==
  IF s.ms[milestone].present THEN <<s.ms[milestone].Day>> ELSE None

\* lines 161-162: df[f'{milestone}%_Cost'].iloc[0]
MilestoneCost(s, milestone) ==
  IF s.ms[milestone].present THEN <<s.ms[milestone].Cost>> ELSE None

\* line 165: truth value of a Timestamp (always true) or of None
TruthyDay(day) == day # None

\* line 170: truth value of a number (false for 0) or of None
TruthyCost(cost) == cost # None /\ cost[1] # 0

\* lines 155-182: one entry of the comparison dict
ComparisonEntry(start_date_day, lowest_cost_day, start_date_cost, lowest_cost_cost) ==
  [start_date_day |-> start_date_day,
   lowest_cost_day |-> lowest_cost_day,
   day_diff |-> IF TruthyDay(start_date_day) /\ TruthyDay(lowest_cost_day)
                THEN <<lowest_cost_day[1] - start_date_day[1]>>
                ELSE None,
   start_date_cost |-> start_date_cost,
   lowest_cost_cost |-> lowest_cost_cost,
   cost_diff |-> IF TruthyCost(start_date_cost) /\ TruthyCost(lowest_cost_cost)
                 THEN <<lowest_cost_cost[1] - start_date_cost[1]>>
                 ELSE None]

\* lines 153-184
MilestoneComparison(sd, lc) ==
  [m \in Milestones |->
     ComparisonEntry(MilestoneDay(sd, m), MilestoneDay(lc, m),
                     MilestoneCost(sd, m), MilestoneCost(lc, m))]

\* the caller passes the two schedules it holds
get_milestone_comparison ==
  /\ start_date_method # NoSchedule
  /\ lowest_cost_method # NoSchedule
  /\ report' = MilestoneComparison(start_date_method, lowest_cost_method)
  /\ last' = "get_milestone_comparison"
  /\ err' = "none"
  /\ UNCHANGED <<input, original_data, data, start_date_method,
               lowest_cost_method, params, replaced_adjusted, calls>>

\* ------------------------------------------------- totals of a schedule
\* Series.max() of a column of a non-empty frame
ColumnMax(df, col) ==
  CHOOSE v \in {df[i][col] : i \in 1..Len(df)} :
    \A i \in 1..Len(df) : df[i][col] <= v

\* Series.min() of a column of a non-empty frame
ColumnMin(df, col) ==
  CHOOSE v \in {df[i][col] : i \in 1..Len(df)} :
    \A i \in 1..Len(df) : v <= df[i][col]

\* TotalDays adding up the durations
TotalDaysSumDurations(df) == SumOf(df, "Duration", Len(df))

\* lines 199-202 and visualizations.py lines 21-24:
\* (df['Actual_End'].max() - df['Actual_Start'].min()).days
TotalDays(df) == ColumnMax(df, "Actual_End") - ColumnMin(df, "Actual_Start")

\* lines 204-205 and visualizations.py lines 26-27: df['Segment_Cost'].sum()
TotalCost(df) == SumOf(df, "Segment_Cost", Len(df))

\* ------------------------------------------------- get_pros_cons_analysis
\* lines 208-209: df.head(len(df)//4), as the number of rows kept
EarlyRows(df) == Len(df) \div 4

\* lines 211-212: numpy's float division raises nothing: 0/0 is nan, x/0 is
\* inf; a finite quotient is kept as the exact fraction num/den
Divide(miles, cost) ==
  IF cost # 0 THEN [kind |-> "value", num |-> miles, den |-> cost]
  ELSE IF miles = 0 THEN [kind |-> "nan", num |-> miles, den |-> cost]
  ELSE [kind |-> "inf", num |-> miles, den |-> cost]

\* lines 208-212
EarlyEfficiency(df) ==
  Divide(SumOf(df, "Miles", EarlyRows(df)),
         SumOf(df, "Segment_Cost", EarlyRows(df)))

\* lines 228-232 and 247-251: the 'metrics' of one method
Metrics(df) ==
  [total_days |-> TotalDays(df),
   total_cost |-> TotalCost(df),
   early_efficiency |-> EarlyEfficiency(df)]

\* lines 214-253: the metrics of 'By Start Date' and 'By Lowest Cost First'
ProsConsAnalysis(sd, lc) ==
  [By_Start_Date |-> Metrics(sd.rows),
   By_Lowest_Cost_First |-> Metrics(lc.rows)]

\* the caller passes the two schedules it holds
get_pros_cons_analysis ==
  /\ start_date_method # NoSchedule
  /\ lowest_cost_method # NoSchedule
  /\ report' = ProsConsAnalysis(start_date_method, lowest_cost_method)
  /\ last' = "get_pros_cons_analysis"
  /\ err' = "none"
  /\ UNCHANGED <<input, original_data, data, start_date_method,
               lowest_cost_method, params, replaced_adjusted, calls>>

\* ------------------------------------------------- create_kpi_cards
\* visualizations.py lines 41-46: days from the schedule's first start to the
\* milestone, None unless both milestone days are there
MilestoneDays(s, other, milestone) ==
  IF s.ms[milestone].present /\ other.ms[milestone].present
  THEN <<s.ms[milestone].Day - ColumnMin(s.rows, "Actual_Start")>>
  ELSE None

\* visualizations.py lines 55-67
KpiCards(sd, lc) ==
  [total_days |-> [start_date |-> TotalDays(sd.rows),
                   lowest_cost |-> TotalDays(lc.rows),
                   difference |-> TotalDays(lc.rows) - TotalDays(sd.rows)],
   total_cost |-> [start_date |-> TotalCost(sd.rows),
                   lowest_cost |-> TotalCost(lc.rows),
                   difference |-> TotalCost(lc.rows) - TotalCost(sd.rows)],
   milestones |-> [m \in Milestones |->
                     [start_date_days |-> MilestoneDays(sd, lc, m),
                      lowest_cost_days |-> MilestoneDays(lc, sd, m),
                      start_date_cost |-> MilestoneCost(sd, m),
                      lowest_cost_cost |-> MilestoneCost(lc, m)]]]

\* the caller passes the two schedules it holds
create_kpi_cards ==
  /\ start_date_method # NoSchedule
  /\ lowest_cost_method # NoSchedule
  /\ report' = KpiCards(start_date_method, lowest_cost_method)
  /\ last' = "create_kpi_cards"
  /\ err' = "none"
  /\ UNCHANGED <<input, original_data, data, start_date_method,
               lowest_cost_method, params, replaced_adjusted, calls>>

Next ==
  \/ \E o \in Offsets, m \in Multipliers, c \in Thresholds :
       apply_parameters(o, m, c)
  \/ sequence_by_start_date
  \/ sequence_by_lowest_cost
  \/ get_milestone_comparison
  \/ get_pros_cons_analysis
  \/ create_kpi_cards

Spec == Init /\ [][Next]_vars

\* ------------------------------------------------- the three-segment example
\* A, B, C as rows 1, 2, 3: planned start day, duration in days and cost in
\* thousands as the example gives them; Miles and EstRate, which the example
\* leaves open, range over the model's domains
ExampleInputs ==
  {<<Row(1, 0, 10, r[1], 100, mi[1]),
     Row(2, 0, 5, r[2], 50, mi[2]),
     Row(3, 20, 5, r[3], 30, mi[3])>> :
     r \in [1..3 -> 1..MaxRate], mi \in [1..3 -> 1..MaxMiles]}

\* FiberSequencer.__init__ on the example
InitExample ==
  /\ input \in ExampleInputs
  /\ original_data = input
  /\ data = input
  /\ start_date_method = NoSchedule
  /\ lowest_cost_method = NoSchedule
  /\ last = "__init__"
  /\ params = Defaults
  /\ replaced_adjusted = FALSE
  /\ err = "none"
  /\ report = <<>>
  /\ calls = 0

SpecExample == InitExample /\ [][Next]_vars

\* ================================================= properties
\* the schedules the caller holds
Produced == {start_date_method, lowest_cost_method} \ {NoSchedule}

RowOf(s, name) ==
  CHOOSE r \in {s.rows[i] : i \in 1..Len(s.rows)} : r.Segment_Name = name

\* the rows of schedule s in the order the packer took them
PackedRows(s) == [i \in 1..Len(s.sequenced) |-> RowOf(s, s.sequenced[i])]

ValidDurations(s) == \A i \in 1..Len(s.rows) : s.rows[i].Duration >= 1

\* C1: no-overlap.  In every schedule whose durations are all >= 1, each
\* segment's Actual_End is <= the Actual_Start of the segment packed next,
\* and no two segments' [Actual_Start, Actual_End) intervals intersect.
C1_NoOverlap ==
  \A s \in Produced :
    ValidDurations(s) =>
      LET pr == PackedRows(s)
      IN  /\ \A i \in 1..(Len(pr) - 1) : pr[i].Actual_End <= pr[i + 1].Actual_Start
          /\ \A i, j \in 1..Len(pr) :
               i # j => \/ pr[i].Actual_End <= pr[j].Actual_Start
                        \/ pr[j].Actual_End <= pr[i].Actual_Start

\* a schedule of two segments with durations >= 1 whose second segment was
\* planned to start before the first one ends and was pushed back
C1_Witness ==
  \E s \in Produced :
    /\ ValidDurations(s)
    /\ Len(s.rows) = 2
    /\ PackedRows(s)[2].Start_Date < PackedRows(s)[1].Actual_End
    /\ PackedRows(s)[2].Actual_Start = PackedRows(s)[1].Actual_End

\* C2: start floor.  Every segment of every schedule starts no earlier than
\* its Start_Date in the working set the schedule was made from.
C2_StartFloor ==
  \A s \in Produced :
    \A i \in 1..Len(s.rows) : s.rows[i].Actual_Start >= s.rows[i].Start_Date

\* a lowest-cost schedule made from offset start dates whose first packed
\* segment is planned later than the earliest one, and whose second is delayed
C2_Witness ==
  /\ lowest_cost_method # NoSchedule
  /\ Len(lowest_cost_method.rows) = 2
  /\ LET pr == PackedRows(lowest_cost_method)
     IN  /\ pr[1].Start_Date > pr[2].Start_Date
         /\ pr[1].Actual_Start = pr[1].Start_Date
         /\ pr[2].Actual_Start > pr[2].Start_Date
         /\ pr[1].Start_Date # input[pr[1].Segment_Name].Start_Date

\* schedule s was packed in ascending order of col, equal keys in input order
KeyOrdered(s, col) ==
  LET pr == PackedRows(s)
  IN  \A i \in 1..(Len(pr) - 1) :
        \/ pr[i][col] < pr[i + 1][col]
        \/ /\ pr[i][col] = pr[i + 1][col]
           /\ pr[i].Segment_Name < pr[i + 1].Segment_Name

\* C3: stable ordering.  sequence_by_start_date packs in ascending Start_Date
\* and sequence_by_lowest_cost in ascending Segment_Cost, and segments with
\* equal keys are packed in input order (Segment_Name is the input position).
C3_StableOrdering ==
  /\ start_date_method # NoSchedule => KeyOrdered(start_date_method, "Start_Date")
  /\ lowest_cost_method # NoSchedule => KeyOrdered(lowest_cost_method, "Segment_Cost")

Sequencing == {"sequence_by_start_date", "sequence_by_lowest_cost"}

\* C4: packing an empty working set fails with EmptySchedule and with no
\* other error.
C4_EmptySchedule ==
  (last \in Sequencing /\ Len(data) = 0) => err = "EmptySchedule"

\* C5: history independence.  original_data always equals the constructor's
\* input, and the working set is the one the last apply_parameters arguments
\* give on a freshly constructed sequencer, whatever calls came before.
C5_HistoryIndependent ==
  /\ original_data = input
  /\ data = AppliedTo(input, input, params.start_date_offset,
                      params.production_multiplier, params.cost_threshold).data

\* apply_parameters with an offset has just replaced a working set that an
\* earlier apply_parameters call had adjusted, and no segment is filtered out
C5_Witness ==
  /\ last = "apply_parameters"
  /\ replaced_adjusted
  /\ params.start_date_offset # 0
  /\ Len(input) = 2
  /\ Len(data) = Len(input)

\* C6: after apply_parameters, Segment_Cost is the input's; with a multiplier
\* other than 1 every EstRate is the input's times the multiplier and every
\* Duration is max(1, ceil(Miles / EstRate)); with multiplier 1 EstRate and
\* Duration are the input's.
C6_RateAndDuration ==
  last = "apply_parameters" =>
    \A i \in 1..Len(data) :
      LET r == data[i]
          o == input[r.Segment_Name]
          m == params.production_multiplier
      IN  /\ r.Segment_Cost = o.Segment_Cost
          /\ IF m.num # m.den
             THEN /\ r.EstRate.num * o.EstRate.den * m.den
                       = o.EstRate.num * m.num * r.EstRate.den
                  /\ r.EstRate.num # 0
                  /\ r.Duration
                       = Max(1, CeilDiv(r.Miles * r.EstRate.den, r.EstRate.num))
             ELSE /\ r.EstRate = o.EstRate
                  /\ r.Duration = o.Duration

\* C7: apply_parameters with a multiplier <= 0 fails with InvalidParameter and
\* leaves a working set with neither the offset nor the multiplied rate, and
\* no schedule holds a duration < 1.
C7_InvalidParameter ==
  /\ (last = "apply_parameters" /\ params.production_multiplier.num <= 0) =>
       /\ err = "InvalidParameter"
       /\ \A i \in 1..Len(data) :
            /\ data[i].Start_Date = input[data[i].Segment_Name].Start_Date
            /\ data[i].EstRate = input[data[i].Segment_Name].EstRate
  /\ \A s \in Produced : ValidDurations(s)

\* C8: cumulative monotonicity.  In every schedule Cumulative_Miles and
\* Cumulative_Cost never decrease from a row to the next, each is the running
\* sum of Miles / Segment_Cost up to and including its row, and the last row
\* carries the totals over all segments.
C8_CumulativeMonotone ==
  \A s \in Produced :
    LET r == s.rows
        n == Len(r)
    IN  /\ r[1].Cumulative_Miles = r[1].Miles
        /\ r[1].Cumulative_Cost = r[1].Segment_Cost
        /\ \A i \in 1..(n - 1) :
             /\ r[i + 1].Cumulative_Miles = r[i].Cumulative_Miles + r[i + 1].Miles
             /\ r[i + 1].Cumulative_Cost = r[i].Cumulative_Cost + r[i + 1].Segment_Cost
             /\ r[i].Cumulative_Miles <= r[i + 1].Cumulative_Miles
             /\ r[i].Cumulative_Cost <= r[i + 1].Cumulative_Cost
        /\ r[n].Cumulative_Miles = SumOf(r, "Miles", n)
        /\ r[n].Cumulative_Cost = SumOf(r, "Segment_Cost", n)

\* a schedule of two segments whose second row adds miles and cost
C8_Witness ==
  \E s \in Produced :
    /\ Len(s.rows) = 2
    /\ s.rows[2].Cumulative_Miles > s.rows[1].Cumulative_Miles
    /\ s.rows[2].Cumulative_Cost > s.rows[1].Cumulative_Cost
    /\ s.rows[1].Cumulative_Cost > 0

C10_MilestoneOrdering ==
  \A s \in Produced :
    (\A m \in Milestones : s.ms[m].present) =>
      /\ s.ms[50].Day <= s.ms[75].Day
      /\ s.ms[75].Day <= s.ms[100].Day

\* C11: get_milestone_comparison.  For every milestone, day_diff and
\* cost_diff are both null exactly when a side's milestone is absent, and
\* otherwise day_diff = lowest-cost day - start-date day and cost_diff =
\* lowest-cost cumulative cost - start-date cumulative cost, whatever the
\* cost values are.
C11_MilestoneDiffs ==
  last = "get_milestone_comparison" =>
    \A m \in Milestones :
      LET a == start_date_method.ms[m]
          b == lowest_cost_method.ms[m]
      IN  IF a.present /\ b.present
          THEN /\ report[m].day_diff = <<b.Day - a.Day>>
               /\ report[m].cost_diff = <<b.Cost - a.Cost>>
          ELSE /\ report[m].day_diff = None
               /\ report[m].cost_diff = None

\* C12: total_days of a schedule, as get_pros_cons_analysis and
\* create_kpi_cards report it for either method, is the latest Actual_End of
\* the schedule minus its earliest Actual_Start: the span on the calendar,
\* idle days included, not the sum of the durations.
C12_TotalDaysIsSpan ==
  LET Span(s, days) ==
        \E i, j \in 1..Len(s.rows) :
          /\ \A k \in 1..Len(s.rows) :
               /\ s.rows[k].Actual_End <= s.rows[i].Actual_End
               /\ s.rows[j].Actual_Start <= s.rows[k].Actual_Start
          /\ days = s.rows[i].Actual_End - s.rows[j].Actual_Start
  IN  /\ last = "get_pros_cons_analysis" =>
           /\ Span(start_date_method, report.By_Start_Date.total_days)
           /\ Span(lowest_cost_method, report.By_Lowest_Cost_First.total_days)
      /\ last = "create_kpi_cards" =>
           /\ Span(start_date_method, report.total_days.start_date)
           /\ Span(lowest_cost_method, report.total_days.lowest_cost)

\* a report on a schedule with idle days: its span exceeds its durations
C12_Witness ==
  /\ last = "get_pros_cons_analysis"
  /\ ValidDurations(start_date_method)
  /\ Len(start_date_method.rows) = 2
  /\ report.By_Start_Date.total_days
       > SumOf(start_date_method.rows, "Duration", 2)

\* C14: early efficiency in get_pros_cons_analysis is the sum of Miles over
\* the sum of Segment_Cost of the first floor(count/4) rows of the schedule;
\* when floor(count/4) is 0 it is reported as undefined and nothing is
\* divided by zero.
C14_EarlyEfficiency ==
  last = "get_pros_cons_analysis" =>
    \A method \in {<<start_date_method, report.By_Start_Date>>,
                   <<lowest_cost_method, report.By_Lowest_Cost_First>>} :
      LET rows == method[1].rows
          early == Len(rows) \div 4
          reported == method[2].early_efficiency
      IN  IF early = 0
          THEN reported.kind = "undefined"
          ELSE reported = [kind |-> "value",
                           num |-> SumOf(rows, "Miles", early),
                           den |-> SumOf(rows, "Segment_Cost", early)]

\* segment name runs from day from to day to in schedule s
Runs(s, name, from, to) ==
  \E i \in 1..Len(s.rows) :
    /\ s.rows[i].Segment_Name = name
    /\ s.rows[i].Actual_Start = from
    /\ s.rows[i].Actual_End = to

\* latest Actual_End minus earliest Actual_Start of schedule s is days
Spans(s, days) ==
  \E i, j \in 1..Len(s.rows) :
    /\ \A k \in 1..Len(s.rows) :
         /\ s.rows[k].Actual_End <= s.rows[i].Actual_End
         /\ s.rows[j].Actual_Start <= s.rows[k].Actual_Start
    /\ days = s.rows[i].Actual_End - s.rows[j].Actual_Start

\* C13: the example. For A(start 0, duration 10, cost 100k), B(start 0,
\* duration 5, cost 50k), C(start 20, duration 5, cost 30k), not adjusted,
\* the by-start-date order is [A,B,C] with A on days 0-10, B 10-15, C 20-25
\* and a span of 25 days; the by-cost order is [C,B,A] with C on days 20-25,
\* B 25-30, A 30-40 and a span of 40 days; the total cost is 180k in both.
C13_ExampleScenario ==
  /\ (last = "sequence_by_start_date" /\ err = "none" /\ data = input) =>
       /\ start_date_method.sequenced = <<1, 2, 3>>
       /\ Runs(start_date_method, 1, 0, 10)
       /\ Runs(start_date_method, 2, 10, 15)
       /\ Runs(start_date_method, 3, 20, 25)
       /\ Spans(start_date_method, 25)
       /\ SumOf(start_date_method.rows, "Segment_Cost", 3) = 180
  /\ (last = "sequence_by_lowest_cost" /\ err = "none" /\ data = input) =>
       /\ lowest_cost_method.sequenced = <<3, 2, 1>>
       /\ Runs(lowest_cost_method, 3, 20, 25)
       /\ Runs(lowest_cost_method, 2, 25, 30)
       /\ Runs(lowest_cost_method, 1, 30, 40)
       /\ Spans(lowest_cost_method, 40)
       /\ SumOf(lowest_cost_method.rows, "Segment_Cost", 3) = 180

\* every schedule a sequence_* call can return for working set df
SchedulesOf(df, col) ==
  UNION {CalculateSchedule(sequenced) : sequenced \in SortValues(df, col)}

\* C15: the two orderings never interfere. A sequence_* call leaves
\* original_data and the working set as they were and leaves the other
\* ordering's schedule as it was, and what it returns is a schedule of the
\* working set alone, whether or not the other ordering ran before it; an
\* apply_parameters call alters no schedule already returned.
C15_NoInterference ==
  [][/\ (calls' # calls /\ last' = "sequence_by_start_date") =>
          /\ data' = data
          /\ original_data' = original_data
          /\ lowest_cost_method' = lowest_cost_method
          /\ err' = "none" =>
               start_date_method' \in SchedulesOf(data, "Start_Date")
     /\ (calls' # calls /\ last' = "sequence_by_lowest_cost") =>
          /\ data' = data
          /\ original_data' = original_data
          /\ start_date_method' = start_date_method
          /\ err' = "none" =>
               lowest_cost_method' \in SchedulesOf(data, "Segment_Cost")
     /\ (calls' # calls /\ last' = "apply_parameters") =>
          /\ original_data' = original_data
          /\ start_date_method' = start_date_method
          /\ lowest_cost_method' = lowest_cost_method]_vars

\* one ordering has run after the other on a working set whose cost order
\* differs from its row order
C15_Witness ==
  /\ last = "sequence_by_lowest_cost"
  /\ err = "none"
  /\ start_date_method # NoSchedule
  /\ Len(data) = 2
  /\ data[1].Segment_Cost > data[2].Segment_Cost
  /\ lowest_cost_method.sequenced = <<2, 1>>
  /\ start_date_method.sequenced = <<1, 2>>

\* C16: for a non-empty working set whose durations are all at least one
\* day, the whole job completes (latest Actual_End) under
\* sequence_by_start_date no later than under sequence_by_lowest_cost.
C16_StartDateCompletesFirst ==
  (Len(data) > 0 /\ \A i \in 1..Len(data) : data[i].Duration >= 1) =>
    \A a \in SchedulesOf(data, "Start_Date") :
      \A b \in SchedulesOf(data, "Segment_Cost") :
        \A i \in 1..Len(a.rows) :
          \E j \in 1..Len(b.rows) : a.rows[i].Actual_End <= b.rows[j].Actual_End

\* both orderings have run on the working set and lowest-cost-first
\* completes strictly later
C16_Witness ==
  /\ Len(data) = 2
  /\ \A i \in 1..2 : data[i].Duration >= 1
  /\ last = "sequence_by_lowest_cost"
  /\ start_date_method \in SchedulesOf(data, "Start_Date")
  /\ lowest_cost_method \in SchedulesOf(data, "Segment_Cost")
  /\ lowest_cost_method.sequenced # start_date_method.sequenced
  /\ \A i \in 1..2 :
       start_date_method.rows[i].Actual_End < lowest_cost_method.rows[2].Actual_End

\* schedule s with every date moved by k days and nothing else changed
Shifted(s, k) ==
  [rows |-> [i \in 1..Len(s.rows) |->
               [s.rows[i] EXCEPT !.Start_Date = @ + k,
                                 !.Actual_Start = @ + k,
                                 !.Actual_End = @ + k]],
   ms |-> [m \in Milestones |->
             IF s.ms[m].present
             THEN [s.ms[m] EXCEPT !.Day = @ + k]
             ELSE s.ms[m]],
   sequenced |-> s.sequenced]

\* the working set apply_parameters leaves with offset k and the other
\* arguments as in the last call
WorkingSetAt(k) ==
  AppliedTo(original_data, data, k, params.production_multiplier,
            params.cost_threshold).data

\* C17: the date offset is a pure translation. With the other arguments
\* fixed, the schedules of either ordering after
\* apply_parameters(start_date_offset = k) are the schedules for offset 0
\* with every Actual_Start, Actual_End and milestone day moved by exactly k
\* days: the order of the segments, the cumulative values and total_days are
\* the same. In particular the schedule a sequence_* call has just returned
\* is such a moved schedule.
C17_OffsetIsTranslation ==
  LET k == params.start_date_offset
      unmoved == WorkingSetAt(0)
  IN  /\ (last = "apply_parameters" /\ Len(unmoved) > 0) =>
           \A col \in {"Start_Date", "Segment_Cost"} :
             LET base == SchedulesOf(unmoved, col)
             IN  /\ SchedulesOf(data, col) = {Shifted(s, k) : s \in base}
                 /\ \A s \in base :
                      TotalDays(Shifted(s, k).rows) = TotalDays(s.rows)
      /\ (last = "sequence_by_start_date" /\ err = "none") =>
           \E s \in SchedulesOf(unmoved, "Start_Date") :
             start_date_method = Shifted(s, k)
      /\ (last = "sequence_by_lowest_cost" /\ err = "none") =>
           \E s \in SchedulesOf(unmoved, "Segment_Cost") :
             lowest_cost_method = Shifted(s, k)

\* a schedule made after an offset of one day earlier, in which a segment
\* waits for the one before it
C17_Witness ==
  /\ last = "sequence_by_lowest_cost"
  /\ err = "none"
  /\ params.start_date_offset = 0 - 1
  /\ Len(lowest_cost_method.rows) = 2
  /\ lowest_cost_method.rows[1].Actual_Start = 0 - 1
  /\ lowest_cost_method.rows[2].Actual_Start
       > lowest_cost_method.rows[2].Start_Date

====
